---- MODULE Spec2Model ----
(***************************************************************************)
(* Model of cnm_responder.py: the handler that receives one CNM response,  *)
(* confirms the granule in CMR, deletes the staged copies from the S3      *)
(* bucket and the EFS output directory, and reports failures.              *)
(*                                                                         *)
(* Python strings are modelled as tuples of tokens, so that str.endswith,  *)
(* the "in" substring test, str.replace and str.split('-') are computed on *)
(* the tokens; an f-string is the pair of its format and its arguments.    *)
(* An exception that leaves cnm_handler is recorded in "raised".           *)
(***************************************************************************)
EXTENDS Integers, Sequences, FiniteSets, TLC

VARIABLES
    event,            \* the parsed CNM response (json.loads of the SNS message)
    efs_before,       \* paths of the output directory found there by remove_from_efs
    efs_files,        \* paths of the output directory that exist
    s3_objects,       \* objects that exist in the staging buckets
    pc,               \* position of the invocation inside cnm_handler
    cmr_url,          \* local of cnm_handler
    token,            \* local of cnm_handler
    checksum_dict,    \* local of cnm_handler: result of run_query
    checksum_errors,  \* local of cnm_handler: result of remove_staged_file
    visited,          \* index of the last file the loop of remove_staged_file reached
    log,              \* records emitted through the logger, in order
    cmr_calls,        \* requests.post calls made, in order
    s3_calls,         \* s3.delete_object calls made, in order
    unlink_calls,     \* pathlib unlink calls made, in order
    published,        \* sns.publish calls that succeeded, in order
    failures,         \* messages handle_failure was invoked with, in order
    faults,           \* calls to SSM, CMR, S3 and the filesystem that raised, in order
    sns_faults,       \* calls to SNS that raised, in order
    raised            \* exception that left cnm_handler ("none" while there is none)

vars == <<event, efs_before, efs_files, s3_objects, pc, cmr_url, token, checksum_dict,
          checksum_errors, visited, log, cmr_calls, s3_calls, unlink_calls,
          published, failures, faults, sns_faults, raised>>

-----------------------------------------------------------------------------
(* Bounds of the model *)

MaxFiles == 2
MaxCmrFiles == 2
MaxTopics == 2

SeqsUpTo(S, n) == UNION {[1..k -> S] : k \in 0..n}

-----------------------------------------------------------------------------
(* Python string operations on token tuples *)

endswith(s, suffix) == Len(s) > 0 /\ s[Len(s)] = suffix

contains(s, sub) == \E i \in 1..Len(s) : s[i] = sub

replace(s, old) == SelectSeq(s, LAMBDA t : t # old)

\* A log record, and the two kinds of message handle_failure is given: a
\* formatted str, or the ClientError caught from the named operation
Log(level, fmt, values) == [level |-> level, fmt |-> fmt, values |-> values]

Str(fmt, values) == [type |-> "str", fmt |-> fmt, values |-> values]

ClientError(operation) == [type |-> "ClientError", fmt |-> operation, values |-> <<>>]

-----------------------------------------------------------------------------
(* Module constants *)

EFS == (<<"MODIS_A">> :> "MODIS_L2P_CORE_NETCDF")
    @@ (<<"MODIS_T">> :> "MODIS_L2P_CORE_NETCDF")
    @@ (<<"VIIRS">> :> "VIIRS_L2P_CORE_NETCDF")

S3 == (<<"MODIS_A">> :> "aqua")
   @@ (<<"MODIS_T">> :> "terra")
   @@ (<<"VIIRS">> :> "viirs")

OUTPUT == "/mnt/data"

TOPIC_STRING == "batch-job-failure"

-----------------------------------------------------------------------------
(* Inputs: the CNM responses the handler is invoked with *)

Checksums == {"c1", "c2"}

\* Granule names split at '-': field 0 is the timestamp (yyyy, MM, dd, HH, mm,
\* ss), field 4 the dataset.  Each is delivered through one deployment prefix.
Granules ==
    { [identifier |-> << <<2023, 1, 15, 10, 30, 45>>, <<"JPL">>, <<"L2P_GHRSST">>,
                         <<"SSTskin">>, <<"MODIS_A">>, <<"D">>, <<"v02.0">>,
                         <<"fv01.0">> >>,
       collection |-> "MODIS_A-JPL-L2P-v2019.0",
       trace      |-> <<"svc-generate", "-sit">>],
      [identifier |-> << <<2024, 3, 1, 0, 5, 0>>, <<"JPL">>, <<"L2P_GHRSST">>,
                         <<"SSTskin">>, <<"MODIS_T">>, <<"N">>, <<"v02.0">>,
                         <<"fv01.0">> >>,
       collection |-> "MODIS_T-JPL-L2P-v2019.0",
       trace      |-> <<"svc-generate", "-uat">>],
      [identifier |-> << <<2022, 12, 31, 23, 50, 0>>, <<"JPL">>, <<"L2P_GHRSST">>,
                         <<"SSTskin">>, <<"VIIRS", "_NPP">>, <<"D">>, <<"v02.0">>,
                         <<"fv01.0">> >>,
       collection |-> "VIIRS_NPP-JPL-L2P-v2016.2",
       trace      |-> <<"svc-generate", "-ops">>] }

FileNames == { <<"granule", ".nc">>, <<"granule", ".nc", ".md5">>,
               <<"granule", ".cmr", ".json">> }

ProductFiles == [name : FileNames, checksum : Checksums]

Responses ==
    { [status |-> "SUCCESS", errorCode |-> "", errorMessage |-> ""],
      [status |-> "FAILURE", errorCode |-> "PROCESSING_ERROR",
       errorMessage |-> "ingest workflow failed"] }

Events ==
    { [identifier |-> g.identifier, collection |-> g.collection, trace |-> g.trace,
       response |-> r, product |-> [files |-> f]] :
      g \in Granules, r \in Responses, f \in SeqsUpTo(ProductFiles, MaxFiles) }

\* What the services answer
CmrFiles == [Name : FileNames, Checksum : Checksums]

CmrResponses ==
    { [errors |-> TRUE, hits |-> 0, files |-> <<>>],
      [errors |-> FALSE, hits |-> 0, files |-> <<>>] }
    \cup { [errors |-> FALSE, hits |-> 1, files |-> f] :
           f \in SeqsUpTo(CmrFiles, MaxCmrFiles) }

TopicArns == { <<"arn:aws:sns:", "svc-", "batch-job-failure">>,
               <<"arn:aws:sns:", "batch-job-failure", "-backup">>,
               <<"arn:aws:sns:", "svc-", "reporter">> }

SnsEnvs ==
    { [list_ok |-> FALSE, topics |-> <<>>, publish_ok |-> FALSE] }
    \cup [list_ok : {TRUE}, topics : SeqsUpTo(TopicArns, MaxTopics), publish_ok : BOOLEAN]

-----------------------------------------------------------------------------
(* Granule names and EFS paths *)

\* f"{granule_name}.nc", f"{granule_name}.md5"
with_suffix(granule_name, suffix) ==
    [granule_name EXCEPT ![Len(granule_name)] = Append(@, suffix)]

\* granule_name.split('-')[4], with "_NPP" removed for VIIRS
dataset_of(granule_name) ==
    LET d_name == granule_name[5]
    IN  IF contains(d_name, "VIIRS") THEN replace(d_name, "_NPP") ELSE d_name

is_leap(year) == (year % 4 = 0 /\ year % 100 # 0) \/ year % 400 = 0

days_in_month(year, month) ==
    IF month = 2 THEN (IF is_leap(year) THEN 29 ELSE 28)
    ELSE IF month \in {4, 6, 9, 11} THEN 30 ELSE 31

RECURSIVE days_before(_, _)
days_before(year, month) ==
    IF month <= 1 THEN 0
    ELSE days_before(year, month - 1) + days_in_month(year, month - 1)

\* datetime.strptime(..., "%Y%m%d%H%M%S") and timetuple().tm_yday
strptime(field) == [year |-> field[1], month |-> field[2], day |-> field[3]]

tm_yday(ts) == days_before(ts.year, ts.month) + ts.day

joinpath(family, dir, year, yday, name) == <<OUTPUT, family, dir, year, yday, name>>

\* The four paths remove_from_efs unlinks, in the order it unlinks them
efs_paths(granule_name) ==
    LET dataset == dataset_of(granule_name)
        ts == strptime(granule_name[1])
        refined == Append(dataset, "_REFINED")
    IN  << joinpath(EFS[dataset], dataset, ts.year, tm_yday(ts), granule_name),
           joinpath(EFS[dataset], dataset, ts.year, tm_yday(ts),
                    with_suffix(granule_name, ".md5")),
           joinpath(EFS[dataset], refined, ts.year, tm_yday(ts), granule_name),
           joinpath(EFS[dataset], refined, ts.year, tm_yday(ts),
                    with_suffix(granule_name, ".md5")) >>

\* A file of another granule that shares the output directory
other_efs_file == joinpath("MODIS_L2P_CORE_NETCDF", <<"MODIS_A">>, 2023, 15,
                           << <<2023, 1, 15, 10, 35, 0>>, <<"JPL">> >>)

\* Bucket and key of s3.delete_object
s3_object(prefix, dataset, name) ==
    [Bucket |-> Append(prefix, "-l2p-granules"), Key |-> <<dataset, "/", name>>]

other_s3_object == [Bucket |-> <<"svc-generate", "-l2p-granules">>,
                    Key |-> <<"aqua", "/", <<"other", ".nc">> >>]

-----------------------------------------------------------------------------
(* run_query: parse the CMR response into the checksum record *)

dict_set(d, key, value) ==
    [k \in DOMAIN d \cup {key} |-> IF k = key THEN value ELSE d[k]]

empty_dict == [k \in {} |-> "c1"]

RECURSIVE parse_checksums(_, _, _)
parse_checksums(files, i, d) ==
    IF i > Len(files) THEN d
    ELSE LET file == files[i]
             d1 == IF endswith(file.Name, ".nc")
                   THEN dict_set(d, "netcdf", file.Checksum) ELSE d
             d2 == IF endswith(file.Name, ".md5")
                   THEN dict_set(d1, "md5", file.Checksum) ELSE d1
         IN  parse_checksums(files, i + 1, d2)

run_query(coll, granule_name, logger) ==
    IF coll.errors
    THEN [checksum_dict |-> empty_dict,
          log |-> Append(logger, Log("ERROR", "Error response - {errors}", <<>>))]
    ELSE IF coll.hits > 0
    THEN [checksum_dict |-> parse_checksums(coll.files, 1, empty_dict),
          log |-> logger]
    ELSE [checksum_dict |-> empty_dict,
          log |-> Append(logger, Log("ERROR", "Could not locate granule: {granule_name}",
                                     <<granule_name>>))]

\* Faulty variant of found: "if checksum_dict is not None:"
found_not_none(d) == TRUE

\* "if checksum_dict:" in cnm_handler
found(d) == DOMAIN d # {}

-----------------------------------------------------------------------------
(* remove_staged_file: the loop over the produced files *)

\* Faulty variant of file_type: every file that is not a netCDF file is taken as md5
file_type_else_md5(name) ==
    IF endswith(name, ".nc") THEN "netcdf" ELSE "md5"

\* The suffix test at the head of the loop body; "continue" skips the file
file_type(name) ==
    IF endswith(name, ".nc") THEN "netcdf"
    ELSE IF endswith(name, ".md5") THEN "md5"
    ELSE "continue"

\* Faulty variant of on_delete_error: the error is logged and not raised again
on_delete_error_swallowed(acc, file) ==
    [acc EXCEPT !.log = Append(@, Log("ERROR", "Error encountered deleting file: {name}",
                                      <<file.name>>))]

\* The except clause around s3.delete_object: log, then raise again
on_delete_error(acc, file) ==
    [acc EXCEPT !.log = Append(@, Log("ERROR", "Error encountered deleting file: {name}",
                                      <<file.name>>)),
                !.raised = "ClientError"]

\* Faulty variant of remove_one: the checksum comparison is inverted
remove_one_inverted(acc, i, file, ftype, checksum_dict_, prefix, dataset, s3_fail) ==
    IF ftype \notin DOMAIN checksum_dict_
    THEN [acc EXCEPT !.raised = "KeyError"]
    ELSE IF file.checksum # checksum_dict_[ftype]
    THEN LET obj == s3_object(prefix, dataset, file.name)
             called == [acc EXCEPT !.calls = Append(@, obj)]
         IN  IF i \in s3_fail
             THEN on_delete_error([called EXCEPT !.faults = Append(@, "s3.delete_object")],
                                  file)
             ELSE [called EXCEPT !.deleted = @ \cup {obj}]
    ELSE [acc EXCEPT !.errors = Append(@, file.name)]

\* One iteration for a file of a known type.  s3_fail holds the positions of
\* the file list at which s3.delete_object raises a ClientError.
remove_one(acc, i, file, ftype, checksum_dict_, prefix, dataset, s3_fail) ==
    IF ftype \notin DOMAIN checksum_dict_
    THEN [acc EXCEPT !.raised = "KeyError"]
    ELSE IF file.checksum = checksum_dict_[ftype]
    THEN LET obj == s3_object(prefix, dataset, file.name)
             called == [acc EXCEPT !.calls = Append(@, obj)]
         IN  IF i \in s3_fail
             THEN on_delete_error([called EXCEPT !.faults = Append(@, "s3.delete_object")],
                                  file)
             ELSE [called EXCEPT
                     !.deleted = @ \cup {obj},
                     !.log = Append(@, Log("INFO",
                         "{dataset}/{name} deleted from L2P granules staging bucket.",
                         <<dataset, file.name>>))]
    ELSE [acc EXCEPT !.errors = Append(@, file.name)]

RECURSIVE remove_loop(_, _, _, _, _, _, _)
remove_loop(acc, i, checksum_dict_, prefix, dataset, file_list, s3_fail) ==
    IF i > Len(file_list) \/ acc.raised # "none" THEN acc
    ELSE LET file == file_list[i]
             ftype == file_type(file.name)
             seen == [acc EXCEPT !.visited = i]
             next == IF ftype = "continue" THEN seen
                     ELSE remove_one(seen, i, file, ftype, checksum_dict_, prefix,
                                     dataset, s3_fail)
         IN  remove_loop(next, i + 1, checksum_dict_, prefix, dataset, file_list, s3_fail)

\* Result: errors is the returned list when raised = "none"
remove_staged_file(checksum_dict_, prefix, dataset, file_list, logger, s3_fail) ==
    remove_loop([errors |-> <<>>, calls |-> <<>>, deleted |-> {}, log |-> logger,
                 visited |-> 0, faults |-> <<>>, raised |-> "none"],
                1, checksum_dict_, prefix, dataset, file_list, s3_fail)

-----------------------------------------------------------------------------
(* publish_event: resolve the topic and publish *)

Unbound == <<>>

\* "for topic in topics: if TOPIC_STRING in arn: topic_arn = arn"
RECURSIVE resolve_topic(_, _, _)
resolve_topic(topics, i, topic_arn) ==
    IF i > Len(topics) THEN topic_arn
    ELSE resolve_topic(topics, i + 1,
                       IF contains(topics[i], TOPIC_STRING) THEN topics[i] ELSE topic_arn)

publish_event(error_msg, logger, sns) ==
    IF ~sns.list_ok
    THEN [log |-> logger \o << Log("ERROR", "Failed to list SNS Topics.", <<>>),
                               Log("ERROR", "Error - {e}", <<>>) >>,
          published |-> <<>>, faults |-> <<"sns.list_topics">>, raised |-> "SystemExit"]
    ELSE LET topic_arn == resolve_topic(sns.topics, 1, Unbound)
         IN  IF topic_arn = Unbound
             THEN [log |-> logger, published |-> <<>>, faults |-> <<>>,
                   raised |-> "UnboundLocalError"]
             ELSE IF ~sns.publish_ok
             THEN [log |-> logger \o
                       << Log("ERROR", "Failed to publish to SNS Topic: {topic_arn}.",
                              <<topic_arn>>),
                          Log("ERROR", "Error - {e}", <<>>) >>,
                   published |-> <<>>, faults |-> <<"sns.publish">>,
                   raised |-> "SystemExit"]
             ELSE [log |-> Append(logger,
                       Log("INFO", "Message published to SNS Topic: {topic_arn}.",
                           <<topic_arn>>)),
                   published |-> << [TopicArn |-> topic_arn, Message |-> error_msg,
                                     Subject |-> "Generate Failure: CNM Responder"] >>,
                   faults |-> <<>>, raised |-> "none"]

-----------------------------------------------------------------------------
(* handle_failure and report_checksum_errors: both end the invocation *)

\* Logs, builds the notification by "str + message", publishes it and calls
\* sys.exit(1).  A message that is not a str makes the concatenation raise
\* TypeError before publish_event is reached.
handle_failure(message, granule, collection, logger) ==
    LET logged == logger \o
            << Log("ERROR", "Cumulus ingestion failed for {granule} in {collection}",
                   <<granule, collection>>),
               Log("ERROR", "{message}", <<message>>) >>
        error_message ==
            Str("Cumulus ingestion failed for {granule} in {collection}.\n{message}",
                <<granule, collection, message>>)
    IN  /\ failures' = Append(failures, message)
        /\ pc' = "done"
        /\ IF message.type # "str"
           THEN /\ log' = logged
                /\ raised' = "TypeError"
                /\ UNCHANGED <<published, sns_faults>>
           ELSE \E p \in {publish_event(error_message, logged, sns) : sns \in SnsEnvs} :
                  /\ published' = published \o p.published
                  /\ sns_faults' = sns_faults \o p.faults
                  /\ IF p.raised = "none"
                     THEN /\ log' = Append(p.log, Log("ERROR", "Exiting program.", <<>>))
                          /\ raised' = "SystemExit"
                     ELSE /\ log' = p.log
                          /\ raised' = p.raised

RECURSIVE log_each(_, _, _)
log_each(logger, names, i) ==
    IF i > Len(names) THEN logger
    ELSE log_each(Append(logger, Log("ERROR", "{file}", <<names[i]>>)), names, i + 1)

\* Faulty variant of report_checksum_errors: the names are logged and the call returns
report_checksum_errors_returns(checksum_errors_, logger) ==
    /\ log' = log_each(logger, checksum_errors_, 1)
    /\ raised' = raised
    /\ pc' = "remove_from_efs"

report_checksum_errors(checksum_errors_, logger) ==
    /\ log' = log_each(Append(logger, Log("ERROR",
                  "The following checksums created during Generate processing did not match checksums found in CMR...",
                  <<>>)), checksum_errors_, 1)
    /\ raised' = "SystemExit"
    /\ pc' = "done"

-----------------------------------------------------------------------------
(* remove_from_efs and delete_file *)

\* Faulty variant of delete_file: FileNotFoundError is not caught
delete_file_no_catch(acc, granule, denied) ==
    LET called == [acc EXCEPT !.calls = Append(@, granule)]
    IN  IF granule \in denied
        THEN [called EXCEPT !.raised = "PermissionError"]
        ELSE IF granule \in acc.files
        THEN [called EXCEPT !.files = @ \ {granule},
                            !.log = Append(@, Log("INFO", "Removed {granule} from EFS.",
                                                  <<granule>>))]
        ELSE [called EXCEPT !.raised = "FileNotFoundError"]

\* granule.unlink(): FileNotFoundError is caught and logged, any other error
\* (the paths in denied) is not caught.
delete_file(acc, granule, denied) ==
    LET called == [acc EXCEPT !.calls = Append(@, granule)]
    IN  IF granule \in denied
        THEN [called EXCEPT !.raised = "PermissionError"]
        ELSE IF granule \in acc.files
        THEN [called EXCEPT !.files = @ \ {granule},
                            !.log = Append(@, Log("INFO", "Removed {granule} from EFS.",
                                                  <<granule>>))]
        ELSE [called EXCEPT !.log = Append(@, Log("INFO",
                                "{granule} does not exist on the EFS.", <<granule>>))]

\* The four delete_file calls, one after the other; an exception ends them
RECURSIVE delete_each(_, _, _, _)
delete_each(acc, paths, i, denied) ==
    IF i > Len(paths) \/ acc.raised # "none" THEN acc
    ELSE delete_each(delete_file(acc, paths[i], denied), paths, i + 1, denied)

remove_from_efs(granule_name, logger, files, denied) ==
    delete_each([files |-> files, log |-> logger, calls |-> <<>>, raised |-> "none"],
                efs_paths(granule_name), 1, denied)

-----------------------------------------------------------------------------
(* cnm_handler *)

Range(f) == {f[i] : i \in DOMAIN f}

\* Faulty variant of is_failure: the status is compared with the wrong literal
is_failure_wrong_literal(event_response) == event_response = "FAILED"

is_failure(event_response) == event_response = "FAILURE"

select_cmr_url(trace) ==
    IF endswith(trace, "-sit") \/ endswith(trace, "-uat")
    THEN "https://cmr.uat.earthdata.nasa.gov/search/granules.umm_json"
    ELSE "https://cmr.earthdata.nasa.gov/search/granules.umm_json"

s3_dataset(granule_name) == S3[dataset_of(granule_name)]

Init ==
    /\ event \in Events
    /\ efs_before = {other_efs_file}
    /\ efs_files = {other_efs_file}
    /\ s3_objects = { s3_object(event.trace, s3_dataset(event.identifier), f.name) :
                      f \in Range(event.product.files) } \cup {other_s3_object}
    /\ pc = "cnm_handler"
    /\ cmr_url = ""
    /\ token = "unbound"
    /\ checksum_dict = empty_dict
    /\ checksum_errors = <<>>
    /\ visited = 0
    /\ log = <<>>
    /\ cmr_calls = <<>>
    /\ s3_calls = <<>>
    /\ unlink_calls = <<>>
    /\ published = <<>>
    /\ failures = <<>>
    /\ faults = <<>>
    /\ sns_faults = <<>>
    /\ raised = "none"

\* response.status is "FAILURE": report the upstream failure
HandlerFailure ==
    /\ pc = "cnm_handler"
    /\ is_failure(event.response.status)
    /\ handle_failure(Str("{errorCode}: {errorMessage}",
                          <<event.response.errorCode, event.response.errorMessage>>),
                      event.identifier, event.collection,
                      Append(log, Log("INFO", "EVENT - {event}", <<>>)))
    /\ UNCHANGED <<event, efs_before, efs_files, s3_objects, cmr_url, token, checksum_dict,
                   checksum_errors, visited, cmr_calls, s3_calls, unlink_calls, faults>>

\* any other status: choose the CMR endpoint and go on to the token
HandlerSuccess ==
    /\ pc = "cnm_handler"
    /\ ~is_failure(event.response.status)
    /\ log' = log \o << Log("INFO", "EVENT - {event}", <<>>),
                        Log("INFO", "Granule possibly ingested for: {collection}. Confirming now.",
                            <<event.collection>>) >>
    /\ cmr_url' = select_cmr_url(event.trace)
    /\ pc' = "get_edl_token"
    /\ UNCHANGED <<event, efs_before, efs_files, s3_objects, token, checksum_dict, checksum_errors,
                   visited, cmr_calls, s3_calls, unlink_calls, published, failures,
                   faults, sns_faults, raised>>

GetTokenOk ==
    /\ pc = "get_edl_token"
    /\ token' = "edl-token"
    /\ log' = log \o << Log("INFO", "Retrieved EDL token.", <<>>),
                        Log("INFO", "Searching for {granule_name} from {collection}.",
                            <<event.identifier, event.collection>>) >>
    /\ pc' = "run_query"
    /\ UNCHANGED <<event, efs_before, efs_files, s3_objects, cmr_url, checksum_dict, checksum_errors,
                   visited, cmr_calls, s3_calls, unlink_calls, published, failures,
                   faults, sns_faults, raised>>

\* ssm get_parameter raises: get_edl_token logs and raises again, the handler
\* passes the caught error to handle_failure
GetTokenError ==
    /\ pc = "get_edl_token"
    /\ faults' = Append(faults, "ssm.get_parameter")
    /\ handle_failure(ClientError("GetParameter"), event.identifier, event.collection,
                      Append(log, Log("ERROR",
                          "Could not retrieve EDL credentials from SSM Parameter Store.", <<>>)))
    /\ UNCHANGED <<event, efs_before, efs_files, s3_objects, cmr_url, token, checksum_dict,
                   checksum_errors, visited, cmr_calls, s3_calls, unlink_calls>>

\* What run_query can return to the handler, over the answers of CMR
query_results == {run_query(coll, event.identifier, log) : coll \in CmrResponses}

cmr_request ==
    [url |-> cmr_url, short_name |-> event.collection,
     readable_granule_name |-> event.identifier, token |-> token]

RunQueryFound ==
    /\ pc = "run_query"
    /\ \E q \in query_results :
         /\ found(q.checksum_dict)
         /\ checksum_dict' = q.checksum_dict
         /\ log' = Append(q.log, Log("INFO", "Found {granule_name} from {collection}.",
                                     <<event.identifier, event.collection>>))
    /\ cmr_calls' = Append(cmr_calls, cmr_request)
    /\ pc' = "remove_staged_file"
    /\ UNCHANGED <<event, efs_before, efs_files, s3_objects, cmr_url, token, checksum_errors, visited,
                   s3_calls, unlink_calls, published, failures, faults, sns_faults, raised>>

\* Faulty variant of RunQueryEmpty: the search failure is logged and the handler goes
\* on to the output directory
RunQueryEmpty_falls_through ==
    /\ pc = "run_query"
    /\ \E q \in query_results :
         /\ ~found(q.checksum_dict)
         /\ checksum_dict' = q.checksum_dict
         /\ log' = q.log
    /\ cmr_calls' = Append(cmr_calls, cmr_request)
    /\ pc' = "remove_from_efs"
    /\ UNCHANGED <<event, efs_before, efs_files, s3_objects, cmr_url, token,
                   checksum_errors, visited, s3_calls, unlink_calls, published, failures,
                   faults, sns_faults, raised>>

RunQueryEmpty ==
    /\ pc = "run_query"
    /\ \E q \in query_results :
         /\ ~found(q.checksum_dict)
         /\ checksum_dict' = q.checksum_dict
         /\ handle_failure(Str("Searched failed for {granule_name} from {collection}.",
                               <<event.identifier, event.collection>>),
                           event.identifier, event.collection, q.log)
    /\ cmr_calls' = Append(cmr_calls, cmr_request)
    /\ UNCHANGED <<event, efs_before, efs_files, s3_objects, cmr_url, token, checksum_errors, visited,
                   s3_calls, unlink_calls, faults>>

\* requests.post raises: nothing in the handler catches it
RunQueryTransportError ==
    /\ pc = "run_query"
    /\ cmr_calls' = Append(cmr_calls, cmr_request)
    /\ faults' = Append(faults, "requests.post")
    /\ raised' = "ConnectionError"
    /\ pc' = "done"
    /\ UNCHANGED <<event, efs_before, efs_files, s3_objects, cmr_url, token, checksum_dict,
                   checksum_errors, visited, log, s3_calls, unlink_calls, published,
                   failures, sns_faults>>

\* The call of remove_staged_file made by cnm_handler, for one choice of the
\* positions at which s3.delete_object raises
staged_result(s3_fail) ==
    remove_staged_file(checksum_dict, event.trace, s3_dataset(event.identifier),
                       event.product.files, log, s3_fail)

\* s3.delete_object raises at no position, or at one (the loop ends there)
S3Failures == {{}} \cup {{k} : k \in 1..Len(event.product.files)}

staged_results == {staged_result(s3_fail) : s3_fail \in S3Failures}

\* every checksum matched: go on to the EFS output directory
RemoveStagedOk ==
    /\ pc = "remove_staged_file"
    /\ \E r \in staged_results :
             /\ r.raised = "none"
             /\ Len(r.errors) = 0
             /\ checksum_errors' = r.errors
             /\ visited' = r.visited
             /\ s3_calls' = s3_calls \o r.calls
             /\ s3_objects' = s3_objects \ r.deleted
             /\ faults' = faults \o r.faults
             /\ log' = Append(r.log, Log("INFO",
                            "Removing {granule_name} from processor L2P output.",
                            <<event.identifier>>))
    /\ pc' = "remove_from_efs"
    /\ UNCHANGED <<event, efs_before, efs_files, cmr_url, token, checksum_dict, cmr_calls,
                   unlink_calls, published, failures, sns_faults, raised>>

\* some checksum did not match: report_checksum_errors ends the invocation
RemoveStagedMismatch ==
    /\ pc = "remove_staged_file"
    /\ \E r \in staged_results :
             /\ r.raised = "none"
             /\ Len(r.errors) > 0
             /\ checksum_errors' = r.errors
             /\ visited' = r.visited
             /\ s3_calls' = s3_calls \o r.calls
             /\ s3_objects' = s3_objects \ r.deleted
             /\ faults' = faults \o r.faults
             /\ report_checksum_errors(r.errors, r.log)
    /\ UNCHANGED <<event, efs_before, efs_files, cmr_url, token, checksum_dict, cmr_calls,
                   unlink_calls, published, failures, sns_faults>>

\* s3.delete_object raised: the handler passes the caught error to handle_failure
RemoveStagedClientError ==
    /\ pc = "remove_staged_file"
    /\ \E r \in staged_results :
             /\ r.raised = "ClientError"
             /\ visited' = r.visited
             /\ s3_calls' = s3_calls \o r.calls
             /\ s3_objects' = s3_objects \ r.deleted
             /\ faults' = faults \o r.faults
             /\ handle_failure(ClientError("DeleteObject"), event.identifier,
                               event.collection, r.log)
    /\ UNCHANGED <<event, efs_before, efs_files, cmr_url, token, checksum_dict, checksum_errors,
                   cmr_calls, unlink_calls>>

\* checksum_dict has no entry for the file's type: KeyError is not caught
RemoveStagedKeyError ==
    /\ pc = "remove_staged_file"
    /\ \E r \in staged_results :
             /\ r.raised = "KeyError"
             /\ visited' = r.visited
             /\ s3_calls' = s3_calls \o r.calls
             /\ s3_objects' = s3_objects \ r.deleted
             /\ faults' = faults \o r.faults
             /\ log' = r.log
    /\ raised' = "KeyError"
    /\ pc' = "done"
    /\ UNCHANGED <<event, efs_before, efs_files, cmr_url, token, checksum_dict, checksum_errors,
                   cmr_calls, unlink_calls, published, failures, sns_faults>>

\* The call remove_from_efs(f"{granule_name}.nc") made by cnm_handler.  The
\* processors write the output directory: which of the four paths are there,
\* and which cannot be unlinked, is what the call finds.
efs_result(found_) ==
    LET paths == efs_paths(with_suffix(event.identifier, ".nc"))
        before == efs_files \cup {paths[k] : k \in {n \in 1..4 : found_[n] = "present"}}
        denied == {paths[k] : k \in {n \in 1..4 : found_[n] = "denied"}}
    IN  [before |-> before,
         after |-> remove_from_efs(with_suffix(event.identifier, ".nc"), log, before, denied)]

efs_results == {efs_result(found_) : found_ \in [1..4 -> {"present", "absent", "denied"}]}

\* the last statement of the handler
RemoveFromEfs ==
    /\ pc = "remove_from_efs"
    /\ \E r \in efs_results :
         /\ efs_before' = r.before
         /\ efs_files' = r.after.files
         /\ log' = r.after.log
         /\ unlink_calls' = unlink_calls \o r.after.calls
         /\ raised' = r.after.raised
         /\ faults' = IF r.after.raised = "none" THEN faults ELSE Append(faults, "unlink")
    /\ pc' = "done"
    /\ UNCHANGED <<event, s3_objects, cmr_url, token, checksum_dict, checksum_errors,
                   visited, cmr_calls, s3_calls, published, failures, sns_faults>>

Next ==
    \/ HandlerFailure
    \/ HandlerSuccess
    \/ GetTokenOk
    \/ GetTokenError
    \/ RunQueryFound
    \/ RunQueryEmpty
    \/ RunQueryTransportError
    \/ RemoveStagedOk
    \/ RemoveStagedMismatch
    \/ RemoveStagedClientError
    \/ RemoveStagedKeyError
    \/ RemoveFromEfs

Spec == Init /\ [][Next]_vars

\* Exit status of the interpreter once the invocation is over: 0 when
\* cnm_handler returned, 1 when SystemExit(1) or another exception left it
\* uncaught.  -1 while the invocation runs.
exit_status ==
    IF pc # "done" THEN -1 ELSE IF raised = "none" THEN 0 ELSE 1

-----------------------------------------------------------------------------
(* Vocabulary of the properties.  The suffix tests and the comparisons are   *)
(* written out here, so that no property is stated through the operators of  *)
(* the model it is about.                                                    *)

Done == pc = "done"

Files == event.product.files

GranulePaths == efs_paths(with_suffix(event.identifier, ".nc"))

StagedObject(i) == s3_object(event.trace, S3[dataset_of(event.identifier)], Files[i].name)

InitialObjects == {StagedObject(i) : i \in 1..Len(Files)} \cup {other_s3_object}

Verified == cmr_calls # <<>> /\ DOMAIN checksum_dict # {}

NoDeletion ==
    /\ s3_calls = <<>>
    /\ unlink_calls = <<>>
    /\ s3_objects = InitialObjects
    /\ efs_files = {other_efs_file}

Logged(fmt, values) ==
    \E i \in 1..Len(log) : log[i].fmt = fmt /\ log[i].values = values

FailureLogged(message) ==
    /\ Logged("Cumulus ingestion failed for {granule} in {collection}",
              <<event.identifier, event.collection>>)
    /\ \E i \in 1..Len(log) :
         /\ log[i].fmt = "{message}"
         /\ log[i].level = "ERROR"
         /\ log[i].values[1].type = message.type
         /\ log[i].values[1].fmt = message.fmt
         /\ log[i].values[1].values = message.values

\* The kind of a produced file as the code decides it
KindOf(name) ==
    IF name[Len(name)] = ".nc" THEN "netcdf"
    ELSE IF name[Len(name)] = ".md5" THEN "md5"
    ELSE "none"

\* The kind of a produced file as the specification words it
KindElseMd5(name) == IF name[Len(name)] = ".nc" THEN "netcdf" ELSE "md5"

Matches(i) ==
    /\ KindOf(Files[i].name) \in DOMAIN checksum_dict
    /\ Files[i].checksum = checksum_dict[KindOf(Files[i].name)]

Differs(i) ==
    /\ KindOf(Files[i].name) \in DOMAIN checksum_dict
    /\ Files[i].checksum # checksum_dict[KindOf(Files[i].name)]

Unrecorded(i) ==
    /\ KindOf(Files[i].name) # "none"
    /\ KindOf(Files[i].name) \notin DOMAIN checksum_dict

Skipped(i) == KindOf(Files[i].name) = "none"

Indexes(n) == [i \in 1..n |-> i]

\* Objects of the matching files among the first n, in file-list order
MatchingObjects(n) ==
    LET sel == SelectSeq(Indexes(n), LAMBDA i : Matches(i))
    IN  [j \in 1..Len(sel) |-> StagedObject(sel[j])]

\* Names of the differing files among the first n, in file-list order
DifferingNames(n) ==
    LET sel == SelectSeq(Indexes(n), LAMBDA i : Differs(i))
    IN  [j \in 1..Len(sel) |-> Files[sel[j]].name]

ReportLogged ==
    /\ \E i \in 1..Len(log) :
         log[i].fmt = "The following checksums created during Generate processing did not match checksums found in CMR..."
    /\ \A j \in 1..Len(checksum_errors) : Logged("{file}", <<checksum_errors[j]>>)

-----------------------------------------------------------------------------
(* Properties *)

\* C1: an event whose status is "FAILURE" never queries the catalog, never
\* deletes an object and never unlinks a path, and once the invocation is
\* over the message "{errorCode}: {errorMessage}" is logged and the exit
\* status is 1.
C1_FailureReportsAndDeletesNothing ==
    event.response.status = "FAILURE" =>
        /\ cmr_calls = <<>>
        /\ NoDeletion
        /\ pc \in {"cnm_handler", "done"}
        /\ Done =>
             /\ exit_status = 1
             /\ FailureLogged(Str("{errorCode}: {errorMessage}",
                                  <<event.response.errorCode, event.response.errorMessage>>))

C1_Witness ==
    /\ event.response.status = "FAILURE"
    /\ Done
    /\ raised = "SystemExit"
    /\ Len(published) = 1
    /\ Len(Files) > 0

\* C2: whenever an object was deleted or a path unlinked, run_query had
\* returned a non-empty checksum record before; an invocation whose lookup
\* never succeeds deletes nothing.
C2_VerificationPrecedesDeletion ==
    ~Verified => NoDeletion

C2_Witness ==
    /\ Done
    /\ Verified
    /\ Len(s3_calls) > 0
    /\ Len(unlink_calls) = 4
    /\ s3_objects # InitialObjects

\* C3: when the catalog has been queried and run_query returned the empty
\* mapping, the invocation is over: the search failure has been reported,
\* the exit status is 1 and remove_staged_file and remove_from_efs were not
\* reached.
C3_SearchMissEndsWithoutDeletion ==
    (cmr_calls # <<>> /\ DOMAIN checksum_dict = {} /\ faults = <<>>) =>
        /\ Done
        /\ exit_status = 1
        /\ Len(failures) = 1
        /\ failures[1].fmt = "Searched failed for {granule_name} from {collection}."
        /\ FailureLogged(Str("Searched failed for {granule_name} from {collection}.",
                             <<event.identifier, event.collection>>))
        /\ visited = 0
        /\ NoDeletion

C3_Witness ==
    /\ Done
    /\ cmr_calls # <<>>
    /\ DOMAIN checksum_dict = {}
    /\ faults = <<>>
    /\ Len(published) = 1
    /\ Len(Files) > 0

\* C4 as stated: for a verified event with no failing call in which every
\* produced file, whatever its name, carries the checksum the catalog records
\* for its kind (".nc" netcdf, anything else md5), all the files are deleted
\* from the bucket, the four paths are gone and the exit status is 0.
C4_AsStated ==
    (/\ Done
     /\ Verified
     /\ faults = <<>>
     /\ \A i \in 1..Len(Files) :
          /\ KindElseMd5(Files[i].name) \in DOMAIN checksum_dict
          /\ Files[i].checksum = checksum_dict[KindElseMd5(Files[i].name)]) =>
        /\ exit_status = 0
        /\ \A i \in 1..Len(Files) : StagedObject(i) \notin s3_objects
        /\ \A k \in 1..4 : GranulePaths[k] \notin efs_files

\* C4 (amended): for a verified event with no failing call in which every
\* produced file named *.nc or *.md5 carries the checksum the catalog records
\* for its kind, exactly those files are deleted from the bucket, in file-list
\* order, files of any other suffix are left in the bucket, the four paths
\* are unlinked or found absent, and the handler returns (exit status 0).
C4_AllMatchingDeleted ==
    (/\ Done
     /\ Verified
     /\ faults = <<>>
     /\ \A i \in 1..Len(Files) : Skipped(i) \/ Matches(i)) =>
        /\ exit_status = 0
        /\ raised = "none"
        /\ checksum_errors = <<>>
        /\ s3_calls = MatchingObjects(Len(Files))
        /\ \A i \in 1..Len(Files) : Matches(i) => StagedObject(i) \notin s3_objects
        /\ \A i \in 1..Len(Files) : Skipped(i) => StagedObject(i) \in s3_objects
        /\ other_s3_object \in s3_objects
        /\ unlink_calls = GranulePaths
        /\ \A k \in 1..4 : GranulePaths[k] \notin efs_files

C4_Witness ==
    /\ Done
    /\ exit_status = 0
    /\ Len(Files) = 2
    /\ Len(s3_calls) = 2
    /\ s3_calls[1] # s3_calls[2]
    /\ \E k \in 1..4 : GranulePaths[k] \in efs_before
    /\ \E k \in 1..4 : GranulePaths[k] \notin efs_before

\* C5 as stated: for a verified event with no failing call in which some
\* produced file does not carry the checksum the catalog records for its
\* kind, every file that does is deleted from the bucket, wherever it stands
\* in the list, the other files are reported, and the exit status is 1.
C5_AsStated ==
    (/\ Done
     /\ Verified
     /\ faults = <<>>
     /\ \E i \in 1..Len(Files) : Differs(i) \/ Unrecorded(i)) =>
        /\ \A i \in 1..Len(Files) : Matches(i) => StagedObject(i) \notin s3_objects
        /\ Len(checksum_errors) > 0
        /\ \A i \in 1..Len(Files) :
             (Differs(i) \/ Unrecorded(i)) =>
                 \E j \in 1..Len(checksum_errors) : checksum_errors[j] = Files[i].name
        /\ ReportLogged
        /\ exit_status = 1

\* C6 as stated: when remove_staged_file returned a non-empty mismatch list
\* and no call failed, the four paths of the output directory are still
\* attempted in that invocation.
C6_AsStated ==
    (Done /\ Len(checksum_errors) > 0 /\ faults = <<>>) => Len(unlink_calls) = 4

\* C6 (amended): when remove_staged_file returned a non-empty mismatch list,
\* report_checksum_errors logs the names and ends the invocation with
\* SystemExit(1) before remove_from_efs is reached: no path is unlinked.
\* The output directory is attempted only after an empty mismatch list.
C6_MismatchEndsBeforeCleanup ==
    /\ Len(checksum_errors) > 0 =>
         /\ Done
         /\ raised = "SystemExit"
         /\ exit_status = 1
         /\ ReportLogged
         /\ unlink_calls = <<>>
         /\ efs_files = {other_efs_file}
         /\ failures = <<>>
    /\ (pc = "remove_from_efs" \/ unlink_calls # <<>>) =>
         (Verified /\ checksum_errors = <<>> /\ visited = Len(Files))

C6_Witness ==
    /\ Done
    /\ Len(checksum_errors) > 0
    /\ Len(s3_calls) > 0
    /\ faults = <<>>

C8_AsStated ==
    (Done /\ Len(failures) > 0) =>
        /\ exit_status = 1
        /\ FailureLogged(failures[1])
        /\ \/ /\ Len(published) = 1
              /\ \E k \in 1..Len(published[1].TopicArn) :
                   published[1].TopicArn[k] = "batch-job-failure"
              /\ raised = "SystemExit"
           \/ raised = "UnboundLocalError"
           \/ sns_faults # <<>>

C10_EfsRemoval ==
    /\ pc # "done" => unlink_calls = <<>>
    /\ unlink_calls # <<>> =>
         LET n == Len(unlink_calls)
             dir(k) == unlink_calls[k][3]
             name(k) == unlink_calls[k][6]
             last(k) == name(k)[Len(name(k))]
             handled(k) ==
                 /\ unlink_calls[k] \notin efs_files
                 /\ unlink_calls[k] \in efs_before =>
                      Logged("Removed {granule} from EFS.", <<unlink_calls[k]>>)
                 /\ unlink_calls[k] \notin efs_before =>
                      Logged("{granule} does not exist on the EFS.", <<unlink_calls[k]>>)
         IN  /\ n <= 4
             /\ unlink_calls = SubSeq(GranulePaths, 1, n)
             /\ last(1)[Len(last(1))] = ".nc"
             /\ n >= 2 => (last(2)[Len(last(2))] = ".md5" /\ dir(2) = dir(1))
             /\ n >= 3 => (name(3) = name(1) /\ dir(3) = Append(dir(1), "_REFINED"))
             /\ n >= 4 => (name(4) = name(2) /\ dir(4) = dir(3))
             /\ other_efs_file \in efs_files
             /\ raised = "none" =>
                  /\ n = 4
                  /\ exit_status = 0
                  /\ \A k \in 1..4 : handled(k)
             /\ raised # "none" =>
                  /\ raised = "PermissionError"
                  /\ exit_status = 1
                  /\ \A k \in 1..(n - 1) : handled(k)
                  /\ \A k \in n..4 : GranulePaths[k] \in efs_files <=> GranulePaths[k] \in efs_before

C10_Witness ==
    /\ Done
    /\ raised = "none"
    /\ Len(unlink_calls) = 4
    /\ unlink_calls[1] \notin efs_before
    /\ unlink_calls[2] \in efs_before
    /\ unlink_calls[3] \notin efs_before
    /\ unlink_calls[4] \notin efs_before

====
